---- MODULE Spec2Model ----
(***************************************************************************)
(* Model of the arbitrage coordination engine: EdgexArb (trading loop and  *)
(* the two leg sequences), OrderBookManager (the two refresh tasks and the *)
(* cached books) and ParadexExchange (the maker adapter).                 *)
(*                                                                         *)
(* Scheduling: one asyncio event loop.  A refresh task or a pending        *)
(* adapter call can only make progress while the main coroutine is         *)
(* suspended at an await; the signal handler (shutdown) is a Python-level  *)
(* handler installed with signal.signal and can run between any two steps. *)
(* order_book_manager.py is read with asyncio in scope.                    *)
(***************************************************************************)
EXTENDS Integers, Sequences, FiniteSets, TLC

\* ------------------------------------------------------------------ bounds
\* Number of leg sequences a run may start.
MaxLegs == 2
\* max_position is drawn from 0..MaxMaxPosition.
MaxMaxPosition == 1

\* --------------------------------------------------------- configuration
long_ex_threshold == 10
short_ex_threshold == 10
order_quantity == 1

\* price of a MARKET order: Python None
NoPrice == 0

\* ----------------------------------------------------------------- books
\* A level is <<price, size>>; a level with no price, <<>>, is one whose
\* [0] raises IndexError.  A cached book of None is NoBook.
NoBook == [set |-> FALSE, bids |-> <<>>, asks |-> <<>>]
Book(b, a) == [set |-> TRUE, bids |-> b, asks |-> a]
EmptyBook == Book(<<>>, <<>>)
Level(p) == << <<p, 1>> >>

MakerBidPx == {100, 101}
MakerAskPx == {122, 123}
TakerBidPx == {111}
TakerAskPx == {112}

Sides(px) == {<<>>} \cup {Level(p) : p \in px}

\* What the venue behind ParadexClient.get_orderbook answers: a book, or an
\* exception (raises = TRUE).
MakerResponses ==
    {[raises |-> FALSE, bids |-> b, asks |-> a] : b \in Sides(MakerBidPx), a \in Sides(MakerAskPx)}
    \cup {[raises |-> TRUE, bids |-> <<>>, asks |-> <<>>]}

\* ParadexExchange.get_orderbook: no client, or any exception, gives the
\* empty book; otherwise the levels converted with float().
ParadexGetOrderbook(client, resp) ==
    IF ~client THEN EmptyBook
    ELSE IF resp.raises THEN EmptyBook
    ELSE Book(resp.bids, resp.asks)

\* What the taker adapter's get_orderbook returns (the adapter is behind the
\* interface): None, a book with any sides, a book with a malformed level.
MalformedBook == Book(<< <<>> >>, Level(112))
TakerBooks ==
    {Book(b, a) : b \in Sides(TakerBidPx), a \in Sides(TakerAskPx)}
    \cup {NoBook, MalformedBook}

\* Results of a place_order call: an order id, None, or an exception.
OrderResults == {"id", "none", "raise"}

\* ParadexExchange.place_order: None without a client, else whatever
\* client.create_order returns or raises.
ParadexPlaceOrder(client, res) == IF ~client THEN "none" ELSE res

\* ------------------------------------------------------------ the detector
Truthy(book) == book.set

\* lines 131-140: both books present with both sides non-empty
BooksReady(mb, tb) ==
    /\ Truthy(mb) /\ Truthy(tb)
    /\ mb.bids # <<>> /\ mb.asks # <<>>
    /\ tb.bids # <<>> /\ tb.asks # <<>>

\* Decimal(str(side[0][0])): raises when the best level has no price.
BestPx(side) ==
    IF side = <<>> \/ side[1] = <<>>
    THEN [ok |-> FALSE, val |-> 0]
    ELSE [ok |-> TRUE, val |-> side[1][1]]

Decision(k, p) == [kind |-> k, price |-> p]

\* line 163: the position the gate compares
current_pos == 0

\* The detector with the short condition tried first.
DetectShortFirst(maker_bid, maker_ask, taker_bid, taker_ask, pos, maxpos) ==
    LET short_ex == (maker_ask - taker_ask) > short_ex_threshold
        long_ex == ~short_ex /\ (taker_bid - maker_bid) > long_ex_threshold
    IN  IF short_ex /\ pos > -maxpos THEN Decision("short", maker_ask)
        ELSE IF long_ex /\ pos < maxpos THEN Decision("long", maker_bid)
        ELSE Decision("hold", 0)

\* The detector with the position limit itself allowed.
DetectGateInclusive(maker_bid, maker_ask, taker_bid, taker_ask, pos, maxpos) ==
    LET long_ex == (taker_bid - maker_bid) > long_ex_threshold
        short_ex == ~long_ex /\ (maker_ask - taker_ask) > short_ex_threshold
    IN  IF long_ex /\ pos <= maxpos THEN Decision("long", maker_bid)
        ELSE IF short_ex /\ pos >= -maxpos THEN Decision("short", maker_ask)
        ELSE Decision("hold", 0)

\* lines 148-170: long before short (elif), then the gate on the position
Detect(maker_bid, maker_ask, taker_bid, taker_ask, pos, maxpos) ==
    LET long_ex == (taker_bid - maker_bid) > long_ex_threshold
        short_ex == ~long_ex /\ (maker_ask - taker_ask) > short_ex_threshold
    IN  IF long_ex /\ pos < maxpos THEN Decision("long", maker_bid)
        ELSE IF short_ex /\ pos > -maxpos THEN Decision("short", maker_ask)
        ELSE Decision("hold", 0)

\* A cycle that takes a missing side's price as 0 instead of skipping.
CycleUnguarded(mb, tb, maxpos) ==
    LET px(s) == IF BestPx(s).ok THEN BestPx(s).val ELSE 0
    IN  IF ~Truthy(mb) \/ ~Truthy(tb) THEN Decision("notready", 0)
        ELSE Detect(px(mb.bids), px(mb.asks), px(tb.bids), px(tb.asks),
                    current_pos, maxpos)

\* lines 128-170: one decision cycle over the books just read
Cycle(mb, tb, maxpos) ==
    IF ~BooksReady(mb, tb) THEN Decision("notready", 0)
    ELSE IF \E s \in {mb.bids, mb.asks, tb.bids, tb.asks} : ~BestPx(s).ok
    THEN Decision("raise", 0)
    ELSE Detect(BestPx(mb.bids).val, BestPx(mb.asks).val,
                BestPx(tb.bids).val, BestPx(tb.asks).val, current_pos, maxpos)

\* ------------------------------------------------------------------ state
VARIABLES
    has_client,     \* ParadexExchange.client is not None
    max_position,   \* EdgexArb.max_position
    stop_flag,      \* EdgexArb.stop_flag
    close_calls,    \* number of data_logger.close() calls made
    maker_book,     \* OrderBookManager.maker_book
    taker_book,     \* OrderBookManager.taker_book
    maker_task,     \* _update_maker_book task: "none", "running", "dead", "cancelled"
    taker_task,     \* _update_taker_book task
    pc,             \* where run() / trading_loop() stands
    m_read,         \* maker book read in the current cycle
    t_read,         \* taker book read in the current cycle
    decision,       \* outcome of the current cycle
    leg,            \* the leg sequence in flight, or the last one that ended
    nlegs,          \* leg sequences started (maker place_order calls)
    inflight,       \* leg sequences started and not yet ended
    maker_ids,      \* maker place_order calls that returned an order id
    taker_calls,    \* taker place_order calls
    records,        \* trade records written
    net_position    \* position on the maker venue, a hedged maker order taken as filled

vars == <<has_client, max_position, stop_flag, close_calls, maker_book, taker_book,
          maker_task, taker_task, pc, m_read, t_read, decision,
          leg, nlegs, inflight, maker_ids, taker_calls, records, net_position>>

NoOrder == [side |-> "-", type |-> "-", price |-> NoPrice, qty |-> 0, post_only |-> FALSE]
Order(s, t, p, q, po) == [side |-> s, type |-> t, price |-> p, qty |-> q, post_only |-> po]
NoRecord == [venue |-> "-", side |-> "-", price |-> 0, qty |-> 0]
Record(v, s, p, q) == [venue |-> v, side |-> s, price |-> p, qty |-> q]

\* st: "none", "maker_call" (maker place_order pending), "wait" (the sleep
\* after an order id), "taker_call" (hedge pending), "recorded", "aborted"
NoLeg == [st |-> "none", maker |-> NoOrder, maker_res |-> "-",
          hedge |-> NoOrder, taker_res |-> "-", rec |-> NoRecord]

InFlightStates == {"maker_call", "wait", "taker_call"}
TerminalStates == {"recorded", "aborted"}

\* pcs at which the main coroutine is suspended at an await, so that the
\* event loop runs the other tasks
Suspended == {"warm_sleep", "sleep", "backoff", "in_leg"}

cfg == <<has_client, max_position>>
cycle == <<m_read, t_read, decision>>
books == <<maker_book, taker_book>>
tasks == <<maker_task, taker_task>>
counts == <<nlegs, inflight, maker_ids, taker_calls, records, net_position>>

Init ==
    /\ has_client \in BOOLEAN
    /\ max_position \in 0..MaxMaxPosition
    /\ stop_flag = FALSE
    /\ close_calls = 0
    /\ maker_book = NoBook
    /\ taker_book = NoBook
    /\ maker_task = "none"
    /\ taker_task = "none"
    /\ pc = "run"
    /\ m_read = NoBook
    /\ t_read = NoBook
    /\ decision = Decision("none", 0)
    /\ leg = NoLeg
    /\ nlegs = 0
    /\ inflight = 0
    /\ maker_ids = 0
    /\ taker_calls = 0
    /\ records = 0
    /\ net_position = 0

\* --------------------------------------------------------------- shutdown
\* A shutdown without its early return.
RunsAgain(flag) == FALSE

\* line 90: `if self.stop_flag: return`
AlreadyStopped(flag) == flag

\* A shutdown that also drops the cached books.
ShutdownDropsBooks ==
    /\ pc \notin {"run", "exited"}
    /\ stop_flag' = TRUE
    /\ close_calls' = IF stop_flag THEN close_calls ELSE close_calls + 1
    /\ maker_book' = NoBook
    /\ taker_book' = NoBook
    /\ UNCHANGED <<cfg, tasks, pc, cycle, leg, counts>>

\* EdgexArb.shutdown, as the signal handler
Shutdown ==
    /\ pc \notin {"run", "exited"}
    /\ IF AlreadyStopped(stop_flag)
       THEN UNCHANGED <<stop_flag, close_calls>>
       ELSE /\ stop_flag' = TRUE
            /\ close_calls' = close_calls + 1
    /\ UNCHANGED <<cfg, books, tasks, pc, cycle, leg, counts>>

\* ------------------------------------------------------- refresh tasks
\* One task polling both venues in turn: a venue is polled only while the
\* other's fetches go through.
PollsInTurn(own, other) == own = "running" /\ other = "running"

\* lines 11-12: each venue's loop is a task of its own, polling while it lives
Polls(own, other) == own = "running"

\* one iteration of _update_maker_book, from the return of a fetch to the
\* issue of the next: the cache is assigned the result, the loop sleeps and
\* calls get_orderbook again
MakerPollWith(resp) ==
    /\ Polls(maker_task, taker_task)
    /\ pc \in Suspended
    /\ maker_book' = ParadexGetOrderbook(has_client, resp)
    /\ UNCHANGED <<cfg, stop_flag, close_calls, taker_book, tasks, pc, cycle, leg, counts>>

MakerPoll == \E resp \in MakerResponses : MakerPollWith(resp)

\* one iteration of _update_taker_book
TakerPoll ==
    /\ Polls(taker_task, maker_task)
    /\ pc \in Suspended
    /\ \E b \in TakerBooks : taker_book' = b
    /\ UNCHANGED <<cfg, stop_flag, close_calls, maker_book, tasks, pc, cycle, leg, counts>>

\* the taker adapter's get_orderbook raises: the exception ends the task
TakerPollRaises ==
    /\ Polls(taker_task, maker_task)
    /\ pc \in Suspended
    /\ taker_task' = "dead"
    /\ UNCHANGED <<cfg, stop_flag, close_calls, books, maker_task, pc, cycle, leg, counts>>

\* ------------------------------------------------------------ trading loop
\* run(): setup_signal_handlers, then trading_loop up to the warm-up loop;
\* order_book_manager.start() creates the two tasks
Start ==
    /\ pc = "run"
    /\ maker_task' = "running"
    /\ taker_task' = "running"
    /\ pc' = "warmup"
    /\ UNCHANGED <<cfg, stop_flag, close_calls, books, cycle, leg, counts>>

\* line 119: the warm-up test
WarmedUp(m_book, t_book) == Truthy(m_book) /\ Truthy(t_book) /\ Len(m_book.bids) > 0

\* one pass of the warm-up loop, lines 116-122
Warmup ==
    /\ pc = "warmup"
    /\ IF stop_flag \/ WarmedUp(maker_book, taker_book)
       THEN pc' = "main"
       ELSE pc' = "warm_sleep"
    /\ UNCHANGED <<cfg, stop_flag, close_calls, books, tasks, cycle, leg, counts>>

WarmSleepDone ==
    /\ pc = "warm_sleep"
    /\ pc' = "warmup"
    /\ UNCHANGED <<cfg, stop_flag, close_calls, books, tasks, cycle, leg, counts>>

\* A loop without the except clause: an exception in the cycle leaves it.
AfterCycleUncaught(d) ==
    CASE d.kind \in {"notready", "hold"} -> "sleep"
      [] d.kind = "raise" -> "cleanup"
      [] OTHER -> "exec"

\* where a cycle's outcome sends the loop (the except clause: lines 172-174)
AfterCycle(d) ==
    CASE d.kind \in {"notready", "hold"} -> "sleep"
      [] d.kind = "raise" -> "backoff"
      [] OTHER -> "exec"

\* top of the main loop, lines 125-170 up to the call of a leg sequence.
\* The books read are kept while the cycle uses them (from the detector on).
LoopTop ==
    /\ pc = "main"
    /\ IF stop_flag
       THEN /\ pc' = "cleanup"
            /\ UNCHANGED cycle
       ELSE LET d == Cycle(maker_book, taker_book, max_position)
            IN  /\ pc' = AfterCycle(d)
                /\ decision' = d
                /\ IF d.kind \in {"long", "short", "hold"}
                   THEN m_read' = maker_book /\ t_read' = taker_book
                   ELSE m_read' = NoBook /\ t_read' = NoBook
    /\ UNCHANGED <<cfg, stop_flag, close_calls, books, tasks, leg, counts>>

SleepDone ==
    /\ pc = "sleep"
    /\ pc' = "main"
    /\ UNCHANGED <<cfg, stop_flag, close_calls, books, tasks, cycle, leg, counts>>

BackoffDone ==
    /\ pc = "backoff"
    /\ pc' = "main"
    /\ UNCHANGED <<cfg, stop_flag, close_calls, books, tasks, cycle, leg, counts>>

\* the maker order of a decision: lines 184-186 and 224-226
MakerOrder(d) ==
    Order(IF d.kind = "long" THEN "BUY" ELSE "SELL", "LIMIT", d.price, order_quantity, TRUE)

\* A hedge on the maker leg's own side.
HedgeSameSide(l) ==
    Order(l.maker.side, "MARKET", NoPrice, order_quantity, FALSE)

\* the hedge order of a leg: lines 208-210 and 238-240
HedgeOrder(l) ==
    Order(IF l.maker.side = "BUY" THEN "SELL" ELSE "BUY", "MARKET", NoPrice,
          order_quantity, FALSE)

\* the trade record of a leg: lines 212 and 242
TradeRecord(l) == Record("paradex", l.maker.side, l.maker.price, order_quantity)

\* A loop that starts the leg sequence without awaiting it.
LaunchedDetached == "main"

\* The trading loop awaits the leg sequence it starts (lines 166, 168).
Launched == "in_leg"

\* A leg sequence that starts whatever the stop flag says.
StartsAnyway(flag) == FALSE

\* lines 178 and 219: `if self.stop_flag: return` at the head of a leg sequence
StopsLeg(flag) == flag

\* _execute_long_trade / _execute_short_trade up to the maker place_order call
Execute ==
    /\ pc = "exec"
    /\ IF StopsLeg(stop_flag)
       THEN /\ pc' = "main"
            /\ UNCHANGED <<leg, nlegs, inflight>>
       ELSE /\ nlegs < MaxLegs
            /\ nlegs' = nlegs + 1
            /\ inflight' = inflight + 1
            /\ leg' = [NoLeg EXCEPT !.st = "maker_call", !.maker = MakerOrder(decision)]
            /\ pc' = Launched
    /\ UNCHANGED <<cfg, stop_flag, close_calls, books, tasks, cycle,
                   maker_ids, taker_calls, records, net_position>>

\* A leg that goes on whenever the maker call did not raise.
ProceedsUnlessRaised(res) == res # "raise"

\* Does the leg go on to the hedge after the maker call returned res?
\* (lines 188-190, 228-230: `if not order_id: return`)
Proceeds(res) == res = "id"

\* the maker place_order call returns or raises: lines 184-192, 224-232
MakerReturn ==
    /\ leg.st = "maker_call"
    /\ \E r \in OrderResults :
         LET res == ParadexPlaceOrder(has_client, r)
         IN  /\ maker_ids' = IF res = "id" THEN maker_ids + 1 ELSE maker_ids
             /\ IF Proceeds(res)
                THEN /\ leg' = [leg EXCEPT !.st = "wait", !.maker_res = res]
                     /\ UNCHANGED <<pc, inflight>>
                ELSE /\ leg' = [leg EXCEPT !.st = "aborted", !.maker_res = res]
                     /\ inflight' = inflight - 1
                     /\ pc' = "main"
    /\ UNCHANGED <<cfg, stop_flag, close_calls, books, tasks, cycle,
                   nlegs, taker_calls, records, net_position>>

\* Position Tracker: what a maker order taken as filled adds to the position
\* on the maker venue.
Filled(l) == IF l.maker.side = "BUY" THEN order_quantity ELSE -order_quantity

\* asyncio.sleep(1) ends and the hedge is sent: lines 203-210, 235-240.
\* The maker order is taken as filled from here on.
WaitDone ==
    /\ leg.st = "wait"
    /\ leg' = [leg EXCEPT !.st = "taker_call", !.hedge = HedgeOrder(leg)]
    /\ taker_calls' = taker_calls + 1
    /\ net_position' = net_position + Filled(leg)
    /\ UNCHANGED <<cfg, stop_flag, close_calls, books, tasks, pc, cycle,
                   nlegs, inflight, maker_ids, records>>

\* Is log_trade_to_csv reached after the hedge call returned res?  The
\* return value of the taker's place_order is not looked at (lines 208-212).
Records(res) == res # "raise"

\* Trade Recorder: log_trade_to_csv writes the record; on a recorder that
\* was closed it either writes or raises.
LogOutcomes(closed) == IF closed THEN BOOLEAN ELSE {TRUE}

\* A leg sequence that sends the hedge again after a hedge call that raised.
HedgeAgain(res) == IF res = "raise" THEN "wait" ELSE "aborted"

\* lines 214-215, 244-245: the except clause of a leg sequence logs the
\* exception and the sequence returns; nothing is sent again
Unrecorded(res) == "aborted"

\* the hedge call returns or raises, then the trade is logged: lines 208-215
TakerReturn ==
    /\ leg.st = "taker_call"
    /\ \E res \in OrderResults, written \in LogOutcomes(close_calls > 0) :
         /\ IF Records(res) /\ written
            THEN /\ leg' = [leg EXCEPT !.st = "recorded", !.taker_res = res,
                                       !.rec = TradeRecord(leg)]
                 /\ records' = records + 1
            ELSE /\ leg' = [leg EXCEPT !.st = Unrecorded(res), !.taker_res = res]
                 /\ UNCHANGED records
    /\ IF leg'.st \in TerminalStates
       THEN inflight' = inflight - 1 /\ pc' = "main"
       ELSE UNCHANGED <<inflight, pc>>
    /\ UNCHANGED <<cfg, stop_flag, close_calls, books, tasks, cycle,
                   nlegs, maker_ids, taker_calls, net_position>>

\* run()'s finally block: shutdown() once more
Cleanup ==
    /\ pc = "cleanup"
    /\ IF AlreadyStopped(stop_flag)
       THEN UNCHANGED <<stop_flag, close_calls>>
       ELSE /\ stop_flag' = TRUE
            /\ close_calls' = close_calls + 1
    /\ pc' = "done"
    /\ UNCHANGED <<cfg, books, tasks, cycle, leg, counts>>

\* arbitrage.py: asyncio.run(main()) returns; pending tasks are cancelled
Exit ==
    /\ pc = "done"
    /\ pc' = "exited"
    /\ maker_task' = IF maker_task = "running" THEN "cancelled" ELSE maker_task
    /\ taker_task' = IF taker_task = "running" THEN "cancelled" ELSE taker_task
    /\ UNCHANGED <<cfg, stop_flag, close_calls, books, cycle, leg, counts>>

Next ==
    \/ Shutdown
    \/ MakerPoll
    \/ TakerPoll
    \/ TakerPollRaises
    \/ Start
    \/ Warmup
    \/ WarmSleepDone
    \/ LoopTop
    \/ SleepDone
    \/ BackoffDone
    \/ Execute
    \/ MakerReturn
    \/ WaitDone
    \/ TakerReturn
    \/ Cleanup
    \/ Exit

Spec == Init /\ [][Next]_vars

\* The event loop runs the trading coroutine whenever it is ready: each sleep
\* ends and, as the claim about termination supposes, every pending adapter
\* call returns.  Nothing is assumed of the signal or of the refresh loops.
FairSpec ==
    /\ Spec
    /\ WF_vars(Start)
    /\ WF_vars(Warmup)
    /\ WF_vars(WarmSleepDone)
    /\ WF_vars(LoopTop)
    /\ WF_vars(SleepDone)
    /\ WF_vars(BackoffDone)
    /\ WF_vars(Execute)
    /\ WF_vars(MakerReturn)
    /\ WF_vars(WaitDone)
    /\ WF_vars(TakerReturn)
    /\ WF_vars(Cleanup)

\* ----------------------------------------------------------------- claims
\* a book with both sides non-empty
Full(b) == b.set /\ b.bids # <<>> /\ b.asks # <<>>
\* the spreads of two full, well-formed books against the thresholds
LongCond(mb, tb) == BestPx(tb.bids).val - BestPx(mb.bids).val > long_ex_threshold
ShortCond(mb, tb) == BestPx(mb.asks).val - BestPx(tb.asks).val > short_ex_threshold
Opposite(side) == IF side = "BUY" THEN "SELL" ELSE "BUY"

\* C1: no orphan hedge.  A sequence whose maker place_order returned None or
\* raised is aborted with no taker place_order call and no trade record; a
\* hedge order exists only in a sequence whose maker call returned an order
\* id, so the taker calls never outnumber the maker order ids.
C1_NoOrphanHedge ==
    /\ leg.maker_res \in {"none", "raise"} =>
           /\ leg.st = "aborted"
           /\ leg.hedge = NoOrder
           /\ leg.taker_res = "-"
           /\ leg.rec = NoRecord
    /\ leg.hedge # NoOrder => leg.maker_res = "id"
    /\ leg.st = "maker_call" => leg.hedge = NoOrder /\ leg.rec = NoRecord
    /\ taker_calls <= maker_ids

\* C1 witness: a second sequence was aborted on a maker call that returned
\* None, after a first one was hedged; no further taker call was made.
C1_Witness ==
    /\ has_client
    /\ leg.st = "aborted" /\ leg.maker_res = "none"
    /\ nlegs = 2 /\ maker_ids = 1 /\ taker_calls = 1

\* C2: at most one trade attempt is in flight.  While a sequence is between
\* its maker place_order call and its end, the loop is suspended in it (it
\* runs no cycle and starts no other sequence), whatever the caches show.
C2_AtMostOneInFlight ==
    /\ inflight <= 1
    /\ (inflight = 1) <=> (leg.st \in InFlightStates)
    /\ leg.st \in InFlightStates => pc = "in_leg"
    /\ pc \in {"main", "exec", "sleep", "backoff"} => inflight = 0

\* C2 witness: a sequence waits for its fill while the caches, refreshed
\* since the decision, still show a spread the detector would act on.
C2_Witness ==
    /\ leg.st = "wait" /\ inflight = 1
    /\ maker_book # m_read
    /\ Cycle(maker_book, taker_book, max_position).kind \in {"long", "short"}

\* C3: the exposure gate.  A maker BUY leg is started only when the tracked
\* net position is below max_position, a maker SELL leg only when it is
\* above -max_position.
C3_ExposureGate ==
    [][nlegs' = nlegs + 1 =>
          /\ leg'.maker.side = "BUY" => net_position < max_position
          /\ leg'.maker.side = "SELL" => net_position > -max_position]_vars

\* C4: staleness over blankness.  A maker poll that fails (no client, or the
\* venue call raises) leaves a cached snapshot with bids and asks unchanged.
C4_StalenessOverBlankness ==
    [][\A resp \in MakerResponses :
          (/\ MakerPollWith(resp)
           /\ ~has_client \/ resp.raises
           /\ Full(maker_book)) => maker_book' = maker_book]_vars

\* C5: never act on a one-sided or missing book.  A leg sequence is entered
\* and its orders are placed only in a cycle whose two books, as read, both
\* exist and have bids and asks.
C5_NeverActOnOneSidedBook ==
    (pc \in {"exec", "in_leg"} \/ leg.st \in InFlightStates) =>
        Full(m_read) /\ Full(t_read)

\* C5 witness: a maker order is pending, placed on two full books, and the
\* maker cache has since lost a side.
C5_Witness ==
    /\ leg.st = "maker_call"
    /\ Full(m_read) /\ Full(t_read)
    /\ maker_book.set /\ maker_book.asks = <<>>

\* C6: with max_position = 0 every cycle holds: no leg sequence is entered,
\* no place_order call is made on either adapter, no trade record is written.
C6_ZeroLimitHolds ==
    max_position = 0 =>
        /\ decision.kind \notin {"long", "short"}
        /\ pc \notin {"exec", "in_leg"}
        /\ leg = NoLeg
        /\ nlegs = 0 /\ maker_ids = 0 /\ taker_calls = 0 /\ records = 0

\* C6 witness: with max_position = 0 a cycle read two full books whose long
\* and short spreads both exceed the thresholds, and held.
C6_Witness ==
    /\ max_position = 0
    /\ pc = "sleep" /\ decision.kind = "hold"
    /\ Full(m_read) /\ Full(t_read)
    /\ LongCond(m_read, t_read) /\ ShortCond(m_read, t_read)

\* C7: long rule and tie-break.  In a cycle that read two full books with
\* taker.best_bid - maker.best_bid > long_threshold and net_position <
\* max_position, the decision is long at the maker best bid read, also when
\* the short condition holds too; the maker order of that cycle is a
\* post-only LIMIT BUY at that price, never a SELL, and it is placed unless
\* the stop flag was set before the leg sequence was entered.
C7_LongRuleAndTieBreak ==
    (/\ Full(m_read) /\ Full(t_read)
     /\ LongCond(m_read, t_read)
     /\ net_position < max_position) =>
        /\ decision = Decision("long", BestPx(m_read.bids).val)
        /\ (pc = "in_leg" \/ (pc = "main" /\ ~stop_flag)) =>
              /\ leg.st # "none"
              /\ leg.maker = Order("BUY", "LIMIT", BestPx(m_read.bids).val,
                                   order_quantity, TRUE)

\* C7 witness: both conditions held in the cycle and the maker order placed
\* is the BUY at the maker best bid.
C7_Witness ==
    /\ Full(m_read) /\ Full(t_read)
    /\ LongCond(m_read, t_read) /\ ShortCond(m_read, t_read)
    /\ pc = "in_leg" /\ leg.st = "maker_call"
    /\ leg.maker.side = "BUY" /\ leg.maker.price = BestPx(m_read.bids).val

\* C8: leg ordering and direction.  After an order id the sequence waits,
\* then sends the hedge, then records; the hedge is a MARKET order with no
\* price, for order_quantity, on the side opposite to the maker leg, and it
\* is sent in every sequence whose maker call returned an order id.
C8_LegOrderAndDirection ==
    /\ leg.st = "wait" =>
           leg.maker_res = "id" /\ leg.hedge = NoOrder /\ leg.rec = NoRecord
    /\ leg.st = "taker_call" =>
           leg.maker_res = "id" /\ leg.hedge # NoOrder /\ leg.rec = NoRecord
    /\ leg.hedge # NoOrder =>
           leg.hedge = Order(Opposite(leg.maker.side), "MARKET", NoPrice,
                             order_quantity, FALSE)
    /\ leg.rec # NoRecord => leg.st = "recorded" /\ leg.taker_res # "-"
    /\ (leg.maker_res = "id" /\ leg.st \in TerminalStates) => leg.hedge # NoOrder

\* C8 witness: a short sequence ran to its record: SELL on the maker, then a
\* MARKET BUY on the taker.
C8_Witness ==
    /\ leg.st = "recorded"
    /\ leg.maker.side = "SELL" /\ leg.maker_res = "id"
    /\ leg.hedge.side = "BUY" /\ leg.hedge.type = "MARKET"

\* C9: a trade record is written only on successful hedge placement: a
\* sequence whose taker call returned an order id has exactly its one
\* record, a sequence whose taker call returned None or raised has none.
C9_RecordOnlyOnHedgeSuccess ==
    /\ (leg.st \in TerminalStates /\ leg.taker_res = "id") => leg.rec = TradeRecord(leg)
    /\ leg.taker_res \in {"none", "raise"} => leg.rec = NoRecord
    /\ records <= taker_calls

\* C10: no mid-leg cancellation.  A sequence in flight when the stop flag is
\* set still sends its hedge and ends, recorded or aborted, before run()
\* ends and before the engine's resources (the trade recorder) are released.
C10_NoMidLegCancellation ==
    /\ pc \in {"cleanup", "done", "exited"} => leg.st \notin InFlightStates
    /\ (leg.maker_res = "id" /\ leg.st \in TerminalStates) => leg.hedge # NoOrder
    /\ leg.st \in {"wait", "taker_call"} => close_calls = 0

\* C11: a transient fetch error is never fatal to polling.  After a failed
\* fetch, an empty result or an exception from get_orderbook, the venue's
\* refresh loop is still polling: no refresh task is ever ended by a fetch.
C11_FetchErrorNeverFatal ==
    /\ maker_task # "dead"
    /\ taker_task # "dead"

C13_IndependentRefresh ==
    /\ [](/\ (maker_task = "running" /\ pc \in Suspended) => ENABLED MakerPoll
          /\ (taker_task = "running" /\ pc \in Suspended) => ENABLED TakerPoll
          /\ pc = "main" => ENABLED LoopTop)
    /\ [][(pc = "main" /\ pc' \in {"sleep", "exec"} /\ decision'.kind # "notready")
            => (m_read' = maker_book /\ t_read' = taker_book)]_vars

\* the taker loop has ended on an exception; the decision loop went through
\* a cycle on the books cached then, and the maker cache has been refreshed
\* since that read
C13_Witness ==
    /\ taker_task = "dead"
    /\ pc = "sleep"
    /\ decision.kind = "hold"
    /\ Full(maker_book)
    /\ m_read # maker_book
    /\ t_read = taker_book

\* the main loop is left only with the stop flag set, and an exception raised
\* while reading, converting or deciding is caught at the loop boundary: the
\* loop backs off and goes back to its top
LoopSurvivesCycleErrors ==
    /\ (pc = "main" /\ pc' = "cleanup") => stop_flag
    /\ (pc = "main" /\ ~stop_flag /\ pc' # pc
          /\ Cycle(maker_book, taker_book, max_position).kind = "raise")
         => (pc' = "backoff" /\ decision'.kind = "raise")
    /\ (pc = "backoff" /\ pc' # pc) => pc' = "main"
    /\ pc' = "cleanup" => pc \in {"main", "cleanup"}

\* a leg sequence ended by an exception of one of its calls
LegRaised ==
    /\ leg.st \in InFlightStates
    /\ leg'.st = "aborted"
    /\ leg'.maker_res = "raise" \/ leg'.taker_res = "raise"

\* C14 as stated: an exception raised inside a decision cycle, while reading
\* or converting the books, deciding, or executing a leg, never ends the main
\* loop: it is caught at the loop boundary and the loop backs off before the
\* next cycle; the main loop exits only on the stop flag.
C14_CaughtAtLoopBoundary ==
    [][/\ LoopSurvivesCycleErrors
       /\ LegRaised => pc' = "backoff"]_vars

\* C14 amended: an exception raised while reading, converting or deciding is
\* caught at the loop boundary and the loop backs off; an exception raised
\* while executing a leg is caught inside the leg sequence, which returns, and
\* the loop goes straight back to its top without backing off; either way
\* the main loop exits only on the stop flag.
C14_ExceptionsNeverEndLoop ==
    [][/\ LoopSurvivesCycleErrors
       /\ LegRaised => pc' = "main"]_vars

\* a leg ended on a raising maker call, and a later cycle raised on a
\* malformed book: the loop has backed off and is at its top again
C14_Witness ==
    /\ pc = "main"
    /\ ~stop_flag
    /\ decision.kind = "raise"
    /\ leg.st = "aborted"
    /\ leg.maker_res = "raise"

\* C15: short rule fall-through.  When the long condition does not yield
\* LongMaker, the case of a long spread above long_threshold with the long
\* gate closed (net_position >= max_position) included, the short condition
\* is still evaluated: the decision is ShortMaker at maker.best_ask whenever
\* maker.best_ask - taker.best_ask > short_threshold and
\* net_position > -max_position, and Hold otherwise.
C15_ShortFallThrough ==
    (/\ pc \in {"sleep", "exec"}
     /\ Full(m_read) /\ Full(t_read)
     /\ ~(LongCond(m_read, t_read) /\ net_position < max_position)) =>
        IF ShortCond(m_read, t_read) /\ net_position > -max_position
        THEN decision = Decision("short", BestPx(m_read.asks).val)
        ELSE decision.kind = "hold"

\* C16: the hedge is attempted exactly once per confirmed maker order and
\* never retried.  The taker place_order calls never outnumber the maker
\* calls that returned an order id and fall short of them by at most one,
\* the sequence waiting to hedge; once a sequence has sent its hedge, whatever
\* the call's outcome, the counts are level: no further taker call is made
\* for it.
C16_HedgeOncePerMakerOrder ==
    /\ taker_calls <= maker_ids
    /\ maker_ids <= taker_calls + 1
    /\ maker_ids = taker_calls + 1 <=> leg.st = "wait"
    /\ leg.st \in {"taker_call"} \cup TerminalStates => taker_calls = maker_ids
    /\ leg.taker_res \in {"none", "raise"} => leg.st \in TerminalStates

\* the hedge of the only confirmed maker order raised; the sequence has ended
\* and the loop has gone through a further cycle without another taker call
C16_Witness ==
    /\ leg.st = "aborted"
    /\ leg.taker_res = "raise"
    /\ maker_ids = 1
    /\ taker_calls = 1
    /\ pc = "sleep"

\* C17: after the shutdown signal the two refresh loops observe the stop flag
\* at the top of their next iteration and stop polling.  An iteration that
\* ends with the flag set (the fetch issued earlier returns, the cache is
\* assigned, the loop sleeps and comes to its top) issues no further
\* get_orderbook call: the loop is no longer running after it.
C17_RefreshLoopsObserveStop ==
    [][stop_flag =>
         /\ MakerPoll => maker_task' # "running"
         /\ TakerPoll => taker_task' # "running"]_vars

\* C18: single-writer cache.  The maker snapshot is written only by the
\* maker refresh loop and the taker snapshot only by the taker refresh loop,
\* each write replacing the whole snapshot in one step that touches nothing
\* else; the decision loop, the leg sequences and shutdown leave both cached
\* snapshots unchanged.
C18_SingleWriterCache ==
    [][/\ maker_book' # maker_book =>
            /\ MakerPoll
            /\ UNCHANGED <<taker_book, pc, leg, stop_flag, cycle>>
       /\ taker_book' # taker_book =>
            /\ TakerPoll
            /\ UNCHANGED <<maker_book, pc, leg, stop_flag, cycle>>
       /\ (pc' # pc \/ leg' # leg \/ cycle' # cycle \/ stop_flag' # stop_flag
             \/ close_calls' # close_calls) => UNCHANGED books]_vars

\* after a shutdown in the middle of a recorded leg both caches still hold
\* full books, and the maker loop has written its cache since the cycle read it
C18_Witness ==
    /\ stop_flag
    /\ leg.st = "recorded"
    /\ Full(maker_book) /\ Full(t_read) /\ taker_book = t_read
    /\ Full(m_read) /\ m_read # maker_book

\* C19: shutdown is idempotent.  Over any sequence of invocations, by one
\* or more signals and by run()'s finally block, the stop flag is set by the
\* first one and stays set, and the trade recorder's close is invoked exactly
\* once, by the first invocation only.
C19_ShutdownIdempotent ==
    /\ [](/\ close_calls <= 1
          /\ stop_flag <=> close_calls = 1
          /\ pc \in {"done", "exited"} => stop_flag)
    /\ [][/\ stop_flag => (stop_flag' /\ close_calls' = close_calls)
          /\ (~stop_flag /\ (Shutdown \/ Cleanup)) =>
                (stop_flag' /\ close_calls' = 1)]_vars

\* the program has ended after a signal's shutdown and the one of the finally
\* block, with a leg recorded before: the recorder was closed once
C19_Witness ==
    /\ pc = "exited"
    /\ stop_flag
    /\ close_calls = 1
    /\ records > 0

====
